---------------------------- MODULE Spec2Model ----------------------------
(***************************************************************************)
(* A model of mochicards.client.MochiClient: construction, the one-shot    *)
(* card operations, and the list_cards generator that walks the pages of   *)
(* the card listing.                                                       *)
(*                                                                         *)
(* Python values are encoded as follows.  An Optional[T] is a sequence of  *)
(* length 0 (None) or 1 (the value).  A dict with string keys is a         *)
(* function whose domain is the set of keys.  A URL built by an f-string   *)
(* "{base}/cards/{id}" is the sequence of its segments <<base,"cards",id>>.*)
(***************************************************************************)
EXTENDS Integers, Sequences, FiniteSets, TLC

VARIABLES
    ctor,       \* the arguments and the environment MochiClient(...) was called with
    client,     \* Optional: the constructed client (api_key, base_url, headers)
    gen,        \* the list_cards generator object: position and local variables
    requests,   \* the HTTP requests the generator has issued, in order
    responses,  \* the response each of those requests received, in order
    yielded,    \* the cards the consumer has received from the generator
    result,     \* what the consumer's most recent next() produced
    last,       \* the most recent call: operation, arguments, request, outcome
    calls       \* the number of one-shot calls made on the client

vars == <<ctor, client, gen, requests, responses, yielded, result, last, calls>>

---------------------------------------------------------------------------
(* Bounds of the model *)

\* the longest card list a page carries
MaxDocs == 2
\* the number of page requests one iteration may issue before the model stops it
MaxRequests == 3
\* the number of one-shot calls made on one client before the model stops
MaxCalls == 1

---------------------------------------------------------------------------
(* Python values *)

None == <<>>
Some(x) == <<x>>

\* bool(x) of an Optional[str]: None and "" are falsy
Truthy(o) == o # None /\ o[1] # ""

BASE_URL == "https://api.mochi.cards/api"

\* the inputs the model draws from
Cards == {"card_1", "card_2"}
ApiKeyArgs == {None, Some(""), Some("key_arg")}
EnvValues == {None, Some(""), Some("key_env")}
BaseUrls == {BASE_URL, "http://localhost:8000/api"}
DeckIds == {None, Some("deck_1")}
Limits == {None, Some(2)}
StartBookmarks == {None, Some("bookmark0")}
PageBookmarks == {None, Some(""), Some("bookmark1")}

RECURSIVE SeqsUpTo(_, _)
SeqsUpTo(S, n) ==
    IF n = 0 THEN {<<>>}
    ELSE LET shorter == SeqsUpTo(S, n - 1)
         IN shorter \cup {Append(s, x) : s \in {t \in shorter : Len(t) = n - 1}, x \in S}

---------------------------------------------------------------------------
(* models.py *)

\* the JSON object of a card as the service sends it (kebab-case keys)
WireCard(id) == [k \in {"id", "content", "deck-id"} |->
                    IF k = "id" THEN id ELSE IF k = "content" THEN "# Hello" ELSE "deck_1"]

\* a JSON object that lacks the required key "id"
WireCardNoId == [k \in {"content", "deck-id"} |-> IF k = "content" THEN "# Hello" ELSE "deck_1"]

\* the fields of Card that have no default, under their wire aliases
CardRequired == {"id", "content", "deck-id"}

\* Card(**json): whether validation succeeds (the required fields are present)
CardValid(json) == CardRequired \subseteq DOMAIN json

\* Card(**json): the record built, wire keys mapped through Config.fields
Card(json) == [id |-> json["id"], content |-> json["content"], deck_id |-> json["deck-id"]]

\* PaginatedCards(**json): docs is required and every doc must validate as a Card
PaginatedCardsValid(json) ==
    /\ "docs" \in DOMAIN json
    /\ \A i \in 1..Len(json["docs"]) : CardValid(json["docs"][i])

\* a faulty variant: the docs come out in reverse
PaginatedCardsReversed(json) ==
    [bookmark |-> IF "bookmark" \in DOMAIN json THEN json["bookmark"] ELSE None,
     docs |-> [i \in 1..Len(json["docs"]) |->
                  Card(json["docs"][Len(json["docs"]) + 1 - i])]]

\* PaginatedCards(**json): the bookmark (None when missing), every doc decoded as a Card
PaginatedCards(json) ==
    [bookmark |-> IF "bookmark" \in DOMAIN json THEN json["bookmark"] ELSE None,
     docs |-> [i \in 1..Len(json["docs"]) |-> Card(json["docs"][i])]]

CardDataKeys == {"content", "deck_id", "template_id", "fields", "attachments",
                 "archived", "pos", "review_reverse"}

\* CardData(...): the keyword arguments given, the class defaults for the others
CardData(given) ==
    [k \in CardDataKeys |->
        IF k \in DOMAIN given THEN given[k]
        ELSE IF k \in {"archived", "review_reverse"} THEN Some(FALSE)
        ELSE None]

\* CardData validation: content and deck_id are str, archived and review_reverse
\* are bool; none of the four accepts None
CardDataValid(data) ==
    \A k \in {"content", "deck_id", "archived", "review_reverse"} : data[k] # None

\* CardData.dict(): every field under its Python name, None values included
CardDataDict(data) == data

---------------------------------------------------------------------------
(* The HTTP executor (requests) and the service *)

\* requests drops a query parameter whose value is None
EncodeParams(params) == {<<k, params[k][1]>> : k \in {j \in DOMAIN params : params[j] # None}}

NoParams == {}
NoJson == None

Request(method, url, params, headers, json) ==
    [method |-> method, url |-> url, params |-> params, headers |-> headers, json |-> json]

\* a response: the transport either raised (no status) or delivered a status and a body
ConnectionError == [transport |-> "ConnectionError", status |-> 0, json |-> None]
HttpResponse(status, json) == [transport |-> "ok", status |-> status, json |-> Some(json)]

ErrorBody == [message |-> "error"]
ErrorStatuses == {401, 404, 500}

\* response.ok
Ok(response) == response.status < 400

\* a faulty variant: only server errors raise
RaisesForStatusServerOnly(response) == response.status >= 500 /\ response.status < 600

\* response.raise_for_status(): raises HTTPError for 4xx and 5xx
RaisesForStatus(response) == response.status >= 400 /\ response.status < 600

PageBodies ==
    {[bookmark |-> b, docs |-> [i \in 1..Len(d) |-> WireCard(d[i])]] :
        b \in PageBookmarks, d \in SeqsUpTo(Cards, MaxDocs)}

\* a 200 body without the docs key
MalformedPage == [bookmark |-> None]

\* what the service may answer to GET {base}/cards/
ListResponses ==
    {HttpResponse(200, body) : body \in PageBodies \cup {MalformedPage}}
    \cup {HttpResponse(s, ErrorBody) : s \in ErrorStatuses}
    \cup {ConnectionError}

\* what the service may answer where the client expects one card
CardResponses ==
    {HttpResponse(200, WireCard(id)) : id \in Cards}
    \cup {HttpResponse(200, WireCardNoId)}
    \cup {HttpResponse(s, ErrorBody) : s \in ErrorStatuses}
    \cup {ConnectionError}

\* what the service may answer to DELETE and to POST .../trash
PlainResponses ==
    {HttpResponse(200, WireCard(id)) : id \in Cards}
    \cup {HttpResponse(s, ErrorBody) : s \in ErrorStatuses}
    \cup {ConnectionError}

Raise(error) == [kind |-> "raise", error |-> error, value |-> None]
Return(value) == [kind |-> "return", error |-> "", value |-> Some(value)]

---------------------------------------------------------------------------
(* MochiClient.__init__ *)

\* the api_key __init__ settles on: the argument, else the environment variable
ResolveApiKey(api_key, environ) == IF api_key = None THEN environ ELSE api_key

\* a faulty variant: `if api_key is None` in place of `if not api_key`
InitRaisesOnlyNone(api_key, environ) == ResolveApiKey(api_key, environ) = None

\* __init__ raises ValueError when the key is None or empty
InitRaises(api_key, environ) == ~Truthy(ResolveApiKey(api_key, environ))

Headers(api_key) ==
    [k \in {"Authorization", "Content-Type"} |->
        IF k = "Authorization" THEN <<"Bearer", api_key>> ELSE <<"application/json">>]

\* MochiClient(api_key, base_url) with os.environ[MOCHI_API_KEY] = environ
MochiClient(api_key, base_url, environ) ==
    IF InitRaises(api_key, environ) THEN None
    ELSE Some([api_key |-> ResolveApiKey(api_key, environ)[1],
               base_url |-> base_url,
               headers |-> Headers(ResolveApiKey(api_key, environ)[1])])

self == client[1]

NoCtor == [called |-> FALSE, api_key |-> None, base_url |-> BASE_URL, environ |-> None]
NoResult == [kind |-> "none", value |-> ""]
NoCall == [op |-> "none", args |-> <<>>, sent |-> None, response |-> None,
           outcome |-> Raise("")]

\* client = MochiClient(api_key, base_url)
Construct(api_key, base_url, environ) ==
    /\ ~ctor.called
    /\ ctor' = [called |-> TRUE, api_key |-> api_key, base_url |-> base_url,
                environ |-> environ]
    /\ client' = MochiClient(api_key, base_url, environ)
    /\ UNCHANGED <<gen, requests, responses, yielded, result, last, calls>>

---------------------------------------------------------------------------
(* The one-shot operations *)

\* a call that sent `request`, received `response` and ended with `outcome`
Called(op, args, request, response, outcome) ==
    /\ client # None
    /\ calls < MaxCalls
    /\ calls' = calls + 1
    /\ last' = [op |-> op, args |-> args, sent |-> Some(request),
                response |-> Some(response), outcome |-> outcome]
    /\ UNCHANGED <<ctor, client, gen, requests, responses, yielded, result>>

\* a call that raised before any request was sent
Rejected(op, args, error) ==
    /\ client # None
    /\ calls < MaxCalls
    /\ calls' = calls + 1
    /\ last' = [op |-> op, args |-> args, sent |-> None, response |-> None,
                outcome |-> Raise(error)]
    /\ UNCHANGED <<ctor, client, gen, requests, responses, yielded, result>>

\* raise_for_status() then Card(**response.json())
CardOutcome(response) ==
    IF response.transport # "ok" THEN Raise(response.transport)
    ELSE IF RaisesForStatus(response) THEN Raise("HTTPError")
    ELSE IF ~CardValid(response.json[1]) THEN Raise("ValidationError")
    ELSE Return(Card(response.json[1]))

CardsUrl == <<self.base_url, "cards", "">>
CardUrl(card_id) == <<self.base_url, "cards", card_id>>

\* create_card(content, deck_id, template_id): the other arguments at their defaults
CreateCard(content, deck_id, template_id, response) ==
    LET args == [content |-> content, deck_id |-> deck_id, template_id |-> template_id,
                 fields |-> None, attachments |-> None, archived |-> Some(FALSE),
                 pos |-> None, review_reverse |-> Some(FALSE)]
        data == CardData(args)
    IN IF ~CardDataValid(data)
       THEN Rejected("create_card", args, "ValidationError")
       ELSE Called("create_card", args,
                   Request("POST", CardsUrl, NoParams, self.headers,
                           Some(CardDataDict(data))),
                   response, CardOutcome(response))

\* get_card(card_id)
GetCard(card_id, response) ==
    Called("get_card", [card_id |-> card_id],
           Request("GET", CardUrl(card_id), NoParams, self.headers, NoJson),
           response, CardOutcome(response))

\* update_card(card_id, **fields): every field defaults to None
UpdateCard(card_id, fields, response) ==
    LET args == [k \in DOMAIN fields \cup {"card_id"} |->
                    IF k = "card_id" THEN Some(card_id) ELSE fields[k]]
        data == CardData(fields)
    IN IF ~CardDataValid(data)
       THEN Rejected("update_card", args, "ValidationError")
       ELSE Called("update_card", args,
                   Request("POST", CardUrl(card_id), NoParams, self.headers,
                           Some(CardDataDict(data))),
                   response, CardOutcome(response))

\* delete_card(card_id): returns None
DeleteCard(card_id, response) ==
    Called("delete_card", [card_id |-> card_id],
           Request("DELETE", CardUrl(card_id), NoParams, self.headers, NoJson),
           response,
           IF response.transport # "ok" THEN Raise(response.transport)
           ELSE IF RaisesForStatus(response) THEN Raise("HTTPError")
           ELSE Return(None))

\* the URL trash_card builds: from the class attribute BASE_URL
TrashUrl(card_id) == <<BASE_URL, "cards", card_id, "trash">>

\* trash_card(card_id): returns response.json() as it is
TrashCard(card_id, response) ==
    Called("trash_card", [card_id |-> card_id],
           Request("POST", TrashUrl(card_id), NoParams, self.headers, NoJson),
           response,
           IF response.transport # "ok" THEN Raise(response.transport)
           ELSE IF response.status = 401 THEN Raise("MochiAuthenticationError")
           ELSE IF response.status = 404 THEN Raise("MochiNotFoundError")
           ELSE IF ~Ok(response) THEN Raise("MochiError")
           ELSE Return(response.json[1]))

---------------------------------------------------------------------------
(* MochiClient._list_cards *)

ListUrl == <<self.base_url, "cards", "">>

ListParams(deck_id, limit, bookmark) ==
    [k \in {"deck-id", "limit", "bookmark"} |->
        IF k = "deck-id" THEN deck_id ELSE IF k = "limit" THEN limit ELSE bookmark]

\* the request _list_cards sends
ListRequest(deck_id, limit, bookmark) ==
    Request("GET", ListUrl, EncodeParams(ListParams(deck_id, limit, bookmark)),
            self.headers, NoJson)

\* the exception _list_cards raises on this response, or "" when it returns
ListError(response) ==
    IF response.transport # "ok" THEN response.transport
    ELSE IF RaisesForStatus(response) THEN "HTTPError"
    ELSE IF ~PaginatedCardsValid(response.json[1]) THEN "ValidationError"
    ELSE ""

ListArgs(deck_id, limit, bookmark) ==
    [deck_id |-> deck_id, limit |-> limit, bookmark |-> bookmark]

\* _list_cards(deck_id, limit, bookmark) called on its own: one page
ListPage(deck_id, limit, bookmark, response) ==
    Called("_list_cards", ListArgs(deck_id, limit, bookmark),
           ListRequest(deck_id, limit, bookmark), response,
           IF ListError(response) # "" THEN Raise(ListError(response))
           ELSE Return(PaginatedCards(response.json[1])))

---------------------------------------------------------------------------
(* MochiClient.list_cards: a generator *)

NoGen == [pc |-> "none", deck_id |-> None, limit |-> None, bookmark |-> None,
          page_cards |-> None, idx |-> 0]

\* a faulty variant: the loop ends on an empty page only
BreaksOnlyWhenEmpty(page) == page.docs = <<>>

\* the loop's exit test: `if not page_cards.docs or not page_cards.bookmark: break`
Breaks(page) == page.docs = <<>> \/ ~Truthy(page.bookmark)

\* a faulty variant: the first page is fetched when list_cards is called
ListCardsEager(deck_id, limit, bookmark) ==
    /\ client # None
    /\ gen.pc = "none"
    /\ \E response \in ListResponses :
          /\ ListError(response) = ""
          /\ ~Breaks(PaginatedCards(response.json[1]))
          /\ requests' = <<ListRequest(deck_id, limit, bookmark)>>
          /\ responses' = <<response>>
          /\ gen' = [NoGen EXCEPT !.pc = "suspended", !.deck_id = deck_id,
                                  !.limit = limit, !.bookmark = bookmark,
                                  !.page_cards = Some(PaginatedCards(response.json[1]))]
    /\ last' = [NoCall EXCEPT !.op = "list_cards",
                              !.args = ListArgs(deck_id, limit, bookmark)]
    /\ UNCHANGED <<ctor, client, yielded, result, calls>>

\* calling list_cards(...) only creates the generator object: no code of the body runs
ListCards(deck_id, limit, bookmark) ==
    /\ client # None
    /\ gen.pc = "none"
    /\ gen' = [NoGen EXCEPT !.pc = "created", !.deck_id = deck_id, !.limit = limit,
                            !.bookmark = bookmark]
    /\ last' = [NoCall EXCEPT !.op = "list_cards",
                              !.args = ListArgs(deck_id, limit, bookmark)]
    /\ UNCHANGED <<ctor, client, requests, responses, yielded, result, calls>>

\* a faulty variant: line 132, `bookmark = page_cards.bookmark`, is missing
NextBookmarkStale == gen.bookmark

\* the bookmark the loop sends next: on entry the argument, after a page
\* `bookmark = page_cards.bookmark`
NextBookmark == IF gen.pc = "created" THEN gen.bookmark ELSE gen.page_cards[1].bookmark

\* next(): the generator is suspended at `yield card` and the page has more docs
NextYield ==
    /\ gen.pc = "suspended"
    /\ gen.idx < Len(gen.page_cards[1].docs)
    /\ gen' = [gen EXCEPT !.idx = gen.idx + 1]
    /\ yielded' = Append(yielded, gen.page_cards[1].docs[gen.idx + 1])
    /\ result' = [kind |-> "yield", value |-> gen.page_cards[1].docs[gen.idx + 1].id]
    /\ UNCHANGED <<ctor, client, requests, responses, last, calls>>

\* a faulty variant: a failed page request ends the iteration silently
AfterPageSwallows(bookmark, response) ==
    IF ListError(response) # ""
    THEN [gen EXCEPT !.pc = "finished", !.bookmark = bookmark]
    ELSE LET page == PaginatedCards(response.json[1])
         IN IF Breaks(page)
            THEN [gen EXCEPT !.pc = "finished", !.bookmark = bookmark,
                             !.page_cards = Some(page)]
            ELSE [gen EXCEPT !.pc = "suspended", !.bookmark = bookmark,
                             !.page_cards = Some(page), !.idx = 1]

\* the generator's state after _list_cards answered with `response`
AfterPage(bookmark, response) ==
    IF ListError(response) # ""
    THEN [gen EXCEPT !.pc = "raised", !.bookmark = bookmark]
    ELSE LET page == PaginatedCards(response.json[1])
         IN IF Breaks(page)
            THEN [gen EXCEPT !.pc = "finished", !.bookmark = bookmark,
                             !.page_cards = Some(page)]
            ELSE [gen EXCEPT !.pc = "suspended", !.bookmark = bookmark,
                             !.page_cards = Some(page), !.idx = 1]

\* next(): the generator starts, or the page is exhausted: one page is requested,
\* and the generator raises, ends, or yields the page's first card
NextFetch(response) ==
    /\ \/ gen.pc = "created"
       \/ gen.pc = "suspended" /\ gen.idx = Len(gen.page_cards[1].docs)
    /\ Len(requests) < MaxRequests
    /\ requests' = Append(requests, ListRequest(gen.deck_id, gen.limit, NextBookmark))
    /\ responses' = Append(responses, response)
    /\ gen' = AfterPage(NextBookmark, response)
    /\ yielded' = IF gen'.pc = "suspended"
                  THEN Append(yielded, gen'.page_cards[1].docs[1])
                  ELSE yielded
    /\ result' = IF gen'.pc = "suspended"
                 THEN [kind |-> "yield", value |-> gen'.page_cards[1].docs[1].id]
                 ELSE IF gen'.pc = "raised"
                 THEN [kind |-> "raise", value |-> ListError(response)]
                 ELSE [kind |-> "raise", value |-> "StopIteration"]
    /\ UNCHANGED <<ctor, client, last, calls>>

\* next() on a generator that has ended or raised: StopIteration, nothing runs
NextExhausted ==
    /\ gen.pc \in {"finished", "raised"}
    /\ result' = [kind |-> "raise", value |-> "StopIteration"]
    /\ UNCHANGED <<ctor, client, gen, requests, responses, yielded, last, calls>>

---------------------------------------------------------------------------
(* Specification of one list_cards iteration, on a client built as the      *)
(* tests' fixture builds it                                                 *)

Init ==
    /\ ctor = [called |-> TRUE, api_key |-> Some("key_arg"), base_url |-> BASE_URL,
               environ |-> None]
    /\ client = MochiClient(ctor.api_key, ctor.base_url, ctor.environ)
    /\ gen = NoGen
    /\ requests = <<>>
    /\ responses = <<>>
    /\ yielded = <<>>
    /\ result = NoResult
    /\ last = NoCall
    /\ calls = 0

Next ==
    \/ \E d \in DeckIds, l \in Limits, b \in StartBookmarks : ListCards(d, l, b)
    \/ NextYield
    \/ \E r \in ListResponses : NextFetch(r)
    \/ NextExhausted

Spec == Init /\ [][Next]_vars

---------------------------------------------------------------------------
(* Specification of construction and the one-shot operations *)

\* the fields update_card accepts, and the values the model gives each
UpdateValues ==
    [content : {None, Some("# New")}, deck_id : {None, Some("deck_2")},
     fields : {None, Some(<<>>)}, attachments : {None, Some(<<>>)},
     archived : {None, Some(FALSE), Some(TRUE)}, pos : {None, Some("")}]

InitOps ==
    /\ ctor = NoCtor
    /\ client = None
    /\ gen = NoGen
    /\ requests = <<>>
    /\ responses = <<>>
    /\ yielded = <<>>
    /\ result = NoResult
    /\ last = NoCall
    /\ calls = 0

NextOps ==
    \/ \E k \in ApiKeyArgs, b \in BaseUrls, e \in EnvValues : Construct(k, b, e)
    \/ \E c \in {None, Some("# Hello")}, d \in {None, Some("deck_1")},
          t \in {None, Some("template_1")}, r \in CardResponses : CreateCard(c, d, t, r)
    \/ \E id \in Cards, r \in CardResponses : GetCard(id, r)
    \/ \E d \in DeckIds, l \in Limits, b \in StartBookmarks, r \in ListResponses :
          ListPage(d, l, b, r)
    \/ \E f \in UpdateValues, r \in CardResponses : UpdateCard("card_1", f, r)
    \/ \E id \in Cards, r \in PlainResponses : DeleteCard(id, r)
    \/ \E id \in Cards, r \in PlainResponses : TrashCard(id, r)

SpecOps == InitOps /\ [][NextOps]_vars

---------------------------------------------------------------------------
(* What the properties below read off the history of an iteration.  They    *)
(* look at the wire (requests sent, responses received) and at what the     *)
(* consumer got, not at the generator's own decoding.                       *)

\* a page request failed: the transport raised, or the status is not a success
Failed(response) == response.transport # "ok" \/ response.status >= 400

\* the card ids a received page carries, in the order the service sent them
WireIds(response) ==
    [j \in 1..Len(response.json[1].docs) |-> response.json[1].docs[j]["id"]]

\* a response that carries a page: a success whose body has the docs list
IsPage(response) == ~Failed(response) /\ "docs" \in DOMAIN response.json[1]

\* the bookmark a successful response carries, None when the key is missing
WireBookmark(response) ==
    IF "bookmark" \in DOMAIN response.json[1] THEN response.json[1].bookmark ELSE None

HasCards(response) == response.json[1].docs # <<>>

RECURSIVE ConcatIds(_)
ConcatIds(rs) == IF rs = <<>> THEN <<>> ELSE WireIds(rs[1]) \o ConcatIds(Tail(rs))

Front(s) == SubSeq(s, 1, Len(s) - 1)

YieldedIds == [i \in 1..Len(yielded) |-> yielded[i].id]

NonNull(bookmark) == bookmark # None
NonEmpty(bookmark) == bookmark # None /\ bookmark # Some("")

\* the page sequence P1..Pn of C1: P1..P(n-1) carry cards and a bookmark for which
\* HasToken holds, Pn is empty with a null bookmark
IsWalk(rs, HasToken(_)) ==
    /\ rs # <<>>
    /\ \A i \in 1..Len(rs) : IsPage(rs[i])
    /\ \A i \in 1..(Len(rs) - 1) : HasCards(rs[i]) /\ HasToken(WireBookmark(rs[i]))
    /\ ~HasCards(rs[Len(rs)]) /\ WireBookmark(rs[Len(rs)]) = None

\* a proper prefix of such a sequence: every page so far carries cards and a token
IsOpenWalk(rs, HasToken(_)) ==
    /\ rs # <<>>
    /\ \A i \in 1..Len(rs) :
          IsPage(rs[i]) /\ HasCards(rs[i]) /\ HasToken(WireBookmark(rs[i]))

\* Full consumption of a walk yields the concatenation of P1..P(n-1) with n
\* requests.  The service answers request by request, so the iteration must not
\* end on P1..Pk while every page so far carries cards and a token: the service
\* would go on to serve P(k+1)..Pn, and the n requests and the cards of Pk that
\* the statement promises would be missing.
YieldsWalk(HasToken(_)) ==
    gen.pc = "finished" =>
        /\ ~IsOpenWalk(responses, HasToken)
        /\ IsWalk(responses, HasToken) =>
              /\ YieldedIds = ConcatIds(Front(responses))
              /\ Len(requests) = Len(responses)

\* C1 (as amended): for pages P1..Pn where P1..P(n-1) each carry at least one card
\* and a bookmark that is neither null nor the empty string, and Pn is empty with a
\* null bookmark, full consumption of list_cards yields exactly the cards of
\* P1..P(n-1) in order, duplicates included, and issues exactly n page requests.
C1_WalkYieldsAllPages == YieldsWalk(NonEmpty)

\* C1 as stated: the same with "non-null bookmark" as the condition on P1..P(n-1).
C1_AsStated == YieldsWalk(NonNull)

\* three pages consumed to the end, four cards yielded, one card in two pages
C1_Witness ==
    /\ gen.pc = "finished"
    /\ Len(responses) = 3
    /\ IsWalk(responses, NonEmpty)
    /\ Len(yielded) = 4
    /\ yielded[1].id = yielded[3].id
    /\ yielded[1].id # yielded[2].id

\* C2: a page with cards but a null bookmark has its cards yielded before the
\* iteration stops.
C2_TokenlessPageYielded ==
    (/\ gen.pc = "finished"
     /\ IsPage(responses[Len(responses)])
     /\ HasCards(responses[Len(responses)])
     /\ WireBookmark(responses[Len(responses)]) = None)
        => YieldedIds = ConcatIds(responses)

\* C3: a page with a null bookmark, with or without cards, is the last request of
\* the iteration.
C3_NullBookmarkIsLast ==
    /\ Len(requests) = Len(responses)
    /\ \A i \in 1..Len(responses) :
          (~Failed(responses[i]) /\ WireBookmark(responses[i]) = None)
              => (i = Len(requests) /\ gen.pc \in {"finished", "raised"})

\* a first page with cards and no bookmark ended the iteration
C3_Witness ==
    /\ gen.pc = "finished"
    /\ Len(requests) = 1
    /\ HasCards(responses[1])
    /\ WireBookmark(responses[1]) = None
    /\ result = [kind |-> "raise", value |-> "StopIteration"]

\* the query a request must carry for these filter values and this bookmark
ExpectedQuery(args, bookmark) ==
    (IF args.deck_id = None THEN {} ELSE {<<"deck-id", args.deck_id[1]>>})
    \cup (IF args.limit = None THEN {} ELSE {<<"limit", args.limit[1]>>})
    \cup (IF bookmark = None THEN {} ELSE {<<"bookmark", bookmark[1]>>})

\* C4: every request of an iteration carries the caller's deck-id and limit; the
\* first carries the caller's bookmark (no bookmark if absent), every later one the
\* bookmark of the page before it; nothing else differs between the requests.
C4_OnlyBookmarkChanges ==
    \A i \in 1..Len(requests) :
        /\ requests[i].params =
              ExpectedQuery(last.args,
                            IF i = 1 THEN last.args.bookmark
                            ELSE WireBookmark(responses[i - 1]))
        /\ [requests[i] EXCEPT !.params = {}] = [requests[1] EXCEPT !.params = {}]

\* a second request went out with the first page's bookmark, deck-id and limit set
C4_Witness ==
    /\ Len(requests) >= 2
    /\ last.args.deck_id # None
    /\ last.args.limit # None
    /\ last.args.bookmark # None
    /\ <<"bookmark", "bookmark1">> \in requests[2].params
    /\ requests[1].params # requests[2].params

\* C5: a failed page request raises to the consumer at that next(), is the last
\* request of the iteration, and leaves the consumer with exactly the cards of the
\* pages before it.
C5_FailureEndsIteration ==
    /\ [](\A i \in 1..Len(responses) :
             Failed(responses[i]) =>
                /\ i = Len(requests)
                /\ i = Len(responses)
                /\ gen.pc = "raised"
                /\ YieldedIds = ConcatIds(Front(responses)))
    /\ [][(Len(responses') > Len(responses) /\ Failed(responses'[Len(responses')])) =>
             /\ gen'.pc = "raised"
             /\ result'.kind = "raise"
             /\ result'.value \in {"HTTPError", "ConnectionError"}
             /\ yielded' = yielded]_vars
    /\ [][gen.pc = "raised" =>
             /\ gen'.pc = "raised"
             /\ requests' = requests
             /\ yielded' = yielded]_vars

\* the second page request failed after the first page's two cards were yielded,
\* and the consumer asked again
C5_Witness ==
    /\ gen.pc = "raised"
    /\ Len(requests) = 2
    /\ Failed(responses[2])
    /\ Len(yielded) = 2
    /\ result.value = "StopIteration"

IsPrefix(s, t) == Len(s) <= Len(t) /\ s = SubSeq(t, 1, Len(s))

\* C10: no request before the consumer first advances; the request for page k+1
\* goes out only when every card of page k has been yielded; one request per page;
\* after m cards no request beyond the page holding the m-th card has been made.
C10_Lazy ==
    /\ [](gen.pc \in {"none", "created"} => requests = <<>>)
    /\ [](Len(requests) = Len(responses))
    /\ [](gen.pc = "suspended" =>
             /\ IsPrefix(YieldedIds, ConcatIds(responses))
             /\ Len(ConcatIds(Front(responses))) < Len(yielded))
    /\ [][requests' # requests =>
             /\ requests = Front(requests')
             /\ YieldedIds = ConcatIds(responses)]_vars

\* the consumer took the first card of a two-card second page: two requests so far
C10_Witness ==
    /\ gen.pc = "suspended"
    /\ Len(requests) = 2
    /\ Len(responses[1].json[1].docs) = 2
    /\ Len(responses[2].json[1].docs) = 2
    /\ Len(yielded) = 3

---------------------------------------------------------------------------
(* Properties of construction and the one-shot operations (SpecOps) *)

\* the response status of the most recent call, 0 when it received none
LastStatus == IF last.response = None THEN 0 ELSE last.response[1].status

\* C6 (as amended): get_card on a 404 or a 401 response raises requests' HTTPError
\* (from raise_for_status) and returns no Card.
C6_GetCardRaisesHTTPError ==
    (last.op = "get_card" /\ LastStatus \in {401, 404}) =>
        /\ last.outcome.kind = "raise"
        /\ last.outcome.error = "HTTPError"
        /\ last.outcome.value = None

\* C6 as stated: a 404 raises MochiNotFoundError, a 401 MochiAuthenticationError,
\* and no Card is returned.
C6_AsStated ==
    last.op = "get_card" =>
        /\ LastStatus = 404 =>
              (last.outcome = Raise("MochiNotFoundError"))
        /\ LastStatus = 401 =>
              (last.outcome = Raise("MochiAuthenticationError"))

\* get_card received a 404
C6_Witness ==
    /\ last.op = "get_card"
    /\ LastStatus = 404
    /\ last.sent # None
    /\ last.outcome.kind = "raise"

\* C7: every request of every operation goes to a URL under the client's
\* base_url; trash_card posts to {base_url}/cards/{id}/trash.
C7_RequestsUnderBaseUrl ==
    last.sent # None =>
        /\ last.sent[1].url[1] = ctor.base_url
        /\ last.op = "trash_card" =>
              last.sent[1].url = <<ctor.base_url, "cards", last.args.card_id, "trash">>

\* the fields the caller of update_card supplied
Supplied(args) == {k \in DOMAIN args \ {"card_id"} : args[k] # None}

\* C8: update_card with any subset of the writable fields sends a request whose
\* body holds exactly the supplied fields, and does not fail for want of content
\* or deck_id.
C8_UpdateSendsSuppliedFields ==
    (last.op = "update_card" /\ Supplied(last.args) # {}) =>
        /\ last.sent # None
        /\ DOMAIN last.sent[1].json[1] = Supplied(last.args)
        /\ \A k \in Supplied(last.args) : last.sent[1].json[1][k] = last.args[k]

\* the constructor was given no usable key: no argument and no environment
\* variable, or an empty key
NoCredential ==
    \/ ctor.api_key = None /\ ctor.environ = None
    \/ ctor.api_key = None /\ ctor.environ = Some("")
    \/ ctor.api_key = Some("")

\* C9: construction without a key, or with an empty one, yields no client and no
\* request is ever sent; a constructed client holds a non-empty api_key and every
\* request it sends carries Authorization: Bearer {api_key}.
C9_CredentialRequired ==
    /\ (ctor.called /\ NoCredential) =>
          (client = None /\ last.sent = None /\ calls = 0 /\ requests = <<>>)
    /\ client # None =>
          /\ client[1].api_key # ""
          /\ client[1].api_key \in {ctor.api_key[k] : k \in DOMAIN ctor.api_key}
                                   \cup {ctor.environ[k] : k \in DOMAIN ctor.environ}
          /\ last.sent # None =>
                last.sent[1].headers["Authorization"] = <<"Bearer", client[1].api_key>>

\* the constructor ran with no argument and no environment variable
C9_Witness ==
    /\ ctor.called
    /\ ctor.api_key = None
    /\ ctor.environ = None
    /\ client = None

=============================================================================
